---- MODULE Spec2Model ----
(***************************************************************************)
(* Model of register/register_windows.go: the Windows service handler      *)
(* (handler.Execute and its handshake with Init / NotifyShutdown), the     *)
(* panic-file redirection (initPanicFile / removePanicFile) and the event  *)
(* log hook (etwHook.Fire).                                                *)
(*                                                                         *)
(* Three specifications share the variables:                               *)
(*   Spec        the program as Init and NotifyShutdown wire it;           *)
(*   SpecHandler the handler driven directly through its methods           *)
(*               started() and stopped(err), in any order, by a caller of  *)
(*               the package (every value of err);                         *)
(*   SpecFire    etwHook.Fire applied to bounded log entries.              *)
(***************************************************************************)
EXTENDS Integers, Sequences, FiniteSets, TLC

VARIABLES
    harness,      \* TRUE: the handler's methods are called directly (SpecHandler)
    interactive,  \* svc.IsAnInteractiveSession()
    service,      \* the package variable service is non-nil
    pcApp,        \* position of the application task
    tosvcVal,     \* the value the application task is sending on h.tosvc
    pcSvc,        \* position of the goroutine running svc.Run / Execute
    pcLis,        \* position of the goroutine listening on serviceSignal
    failed,       \* Execute's local variable failed
    reported,     \* the statuses Execute has sent on s, in order
    ret,          \* Execute's return value, <<>> before it returns
    runErr,       \* svc.Run returned a non-nil error
    exited,       \* "no", or how the process ended
    fs,           \* the panic file and its .old sibling on disk
    panicFile,    \* the package variable panicFile: "nil", "open", "closed"
    oldStderr,    \* the package variable oldStderr
    stderr,       \* what STD_ERROR_HANDLE designates
    nReq,         \* control requests delivered so far
    nWrites,      \* writes made to the redirected error output so far
    readyDone,    \* history: the nil on fromsvc has been received
    initVal,      \* history: the value Execute received at line 334
    leftBy,       \* history: how Execute left its wait
    priorCrash,   \* history: the panic file's contents when initPanicFile began
    beginDone,    \* history: initPanicFile returned nil
    endSize,      \* history: the size removePanicFile saw, -1 before it ran
    called,       \* history: the handler methods called so far
    lastCmd,      \* history: the control request Execute took last
    entry,        \* the logrus entry handed to Fire
    fireOut       \* what Fire did with it

svcVars == <<harness, interactive, service, pcApp, tosvcVal, pcSvc, pcLis, failed,
             reported, ret, runErr, exited, nReq, readyDone, initVal, leftBy,
             called, lastCmd>>
fileVars == <<fs, panicFile, oldStderr, stderr, nWrites, priorCrash, beginDone,
              endSize>>
fireVars == <<entry, fireOut>>
svcVars_but_pcSvc == <<harness, interactive, service, pcApp, tosvcVal, pcLis, failed,
                       reported, ret, runErr, exited, nReq, readyDone, initVal,
                       leftBy, called, lastCmd>>
vars == <<svcVars, fileVars, fireVars>>

----------------------------------------------------------------------------
(* Bounds *)

\* control requests the service manager delivers in one run
MaxRequests == 3
\* writes to the redirected error output in one run
MaxWrites == 2
\* keys a log entry's Data can hold
MaxFields == 2

----------------------------------------------------------------------------
(* svc.Status values built by Execute *)

AcceptNone == {}
\* line 340 without the parameter-change bit
AcceptRunningNoParamChange == {"Stop", "Shutdown"}
AcceptRunning == {"Stop", "Shutdown", "ParamChange"}

Status(state, accepts) == [State |-> state, Accepts |-> accepts]
StartPending == Status("StartPending", AcceptNone)
Running == Status("Running", AcceptRunning)
StopPending == Status("StopPending", AcceptNone)

\* svc.ChangeRequest.Cmd values the service manager can deliver
Cmds == {"ParamChange", "Interrogate", "Stop", "Shutdown", "Pause"}

----------------------------------------------------------------------------
(* The panic file *)

NoFile == [exists |-> FALSE, data |-> <<>>]
File(d) == [exists |-> TRUE, data |-> d]

\* the crash-capture state the two functions read and write
FileState == [fs |-> fs, panicFile |-> panicFile, oldStderr |-> oldStderr,
              stderr |-> stderr]

\* the places where initPanicFile can return an error
FailPoints == {"none", "create", "open", "stat", "recreate", "getstd", "setstd"}

\* os.Create: O_RDWR|O_CREATE|O_TRUNC
OsCreate(files, name) == [files EXCEPT ![name] = File(<<>>)]

\* os.OpenFile(O_CREATE|O_WRONLY|O_APPEND): creates when absent, keeps contents
OsOpenAppend(files, name) ==
    IF files[name].exists THEN files ELSE [files EXCEPT ![name] = File(<<>>)]

\* os.Rename: the source replaces the destination
OsRename(files, from, to) ==
    IF files[from].exists
    THEN [files EXCEPT ![to] = files[from], ![from] = NoFile]
    ELSE files

\* os.Remove
OsRemove(files, name) == [files EXCEPT ![name] = NoFile]

\* initPanicFile(rancherPanicFile): the state it leaves and whether it failed
InitPanicFile(st, failAt) ==
    IF failAt = "create" THEN [st |-> st, err |-> TRUE]
    ELSE
    LET f1 == OsCreate(st.fs, "panic")
    IN  IF failAt = "open"
        THEN [st |-> [st EXCEPT !.fs = f1, !.panicFile = "nil"], err |-> TRUE]
        ELSE
        LET f2 == OsOpenAppend(f1, "panic")
            s2 == [st EXCEPT !.fs = f2, !.panicFile = "open"]
        IN  IF failAt = "stat" THEN [st |-> s2, err |-> TRUE]
            ELSE
            LET size == Len(f2["panic"].data)
                rotate == size > 0
                f3 == IF rotate THEN OsRename(f2, "panic", "old") ELSE f2
                s3 == IF ~rotate THEN s2
                      ELSE IF failAt = "recreate"
                           THEN [s2 EXCEPT !.fs = f3, !.panicFile = "nil"]
                           ELSE [s2 EXCEPT !.fs = OsCreate(f3, "panic"),
                                           !.panicFile = "open"]
            IN  IF rotate /\ failAt = "recreate" THEN [st |-> s3, err |-> TRUE]
                ELSE IF failAt = "getstd" THEN [st |-> s3, err |-> TRUE]
                ELSE
                LET s4 == [s3 EXCEPT !.oldStderr = s3.stderr]
                IN  IF failAt = "setstd" THEN [st |-> s4, err |-> TRUE]
                    ELSE [st |-> [s4 EXCEPT !.stderr = "panicFile"],
                          err |-> FALSE]

\* panicFile.Stat() succeeds only on an open file
StatOk(st) == st.panicFile = "open"

\* removePanicFile() that closes and deletes the file but leaves the error output
\* pointing at it
RemovePanicFileNoRestore(st) ==
    IF StatOk(st) /\ Len(st.fs["panic"].data) = 0
    THEN [st EXCEPT !.panicFile = "closed",
                    !.fs = OsRemove(st.fs, "panic")]
    ELSE st

\* removePanicFile() that does not look at the size
RemovePanicFileAlways(st) ==
    IF StatOk(st)
    THEN [st EXCEPT !.stderr = st.oldStderr,
                    !.panicFile = "closed",
                    !.fs = OsRemove(st.fs, "panic")]
    ELSE st

\* removePanicFile()
RemovePanicFile(st) ==
    IF StatOk(st) /\ Len(st.fs["panic"].data) = 0
    THEN [st EXCEPT !.stderr = st.oldStderr,
                    !.panicFile = "closed",
                    !.fs = OsRemove(st.fs, "panic")]
    ELSE st

SetFileState(st) ==
    /\ fs' = st.fs
    /\ panicFile' = st.panicFile
    /\ oldStderr' = st.oldStderr
    /\ stderr' = st.stderr

----------------------------------------------------------------------------
(* The service handler and the tasks around it *)

Alive == exited = "no"
NoRet == <<>>

Report(st) == reported' = Append(reported, st)

\* handler.stopped returning right after its send, without line 325
AfterSendNoAck ==
    IF pcApp = "sendStarted"
    THEN (IF harness THEN "idle" ELSE "spawnListener")
    ELSE "done"

\* the place the application task continues at once its send on tosvc is taken
AfterSend ==
    IF pcApp = "sendStarted"
    THEN (IF harness THEN "idle" ELSE "spawnListener")
    ELSE "waitAck"

\* initService that sets service only when the session is not interactive
AppSpawnServiceOnlyAsService ==
    /\ Alive /\ pcApp = "initService"
    /\ service' = ~interactive
    /\ pcSvc' = "run"
    /\ pcApp' = "waitReady"
    /\ UNCHANGED <<lastCmd, harness, interactive, tosvcVal, pcLis, failed, reported,
                   ret, runErr, exited, nReq, readyDone, initVal, leftBy, called>>
    /\ UNCHANGED <<fileVars, fireVars>>

\* initService, lines 267-302: the handler is made, service set, the goroutine started
AppSpawnService ==
    /\ Alive /\ pcApp = "initService"
    /\ service' = TRUE
    /\ pcSvc' = "run"
    /\ pcApp' = "waitReady"
    /\ UNCHANGED <<lastCmd, harness, interactive, tosvcVal, pcLis, failed, reported, ret,
                   runErr, exited, nReq, readyDone, initVal, leftBy, called>>
    /\ UNCHANGED <<fileVars, fireVars>>

\* svc.Run returns an error without ever calling Execute
SvcRunFails ==
    /\ Alive /\ pcSvc = "run" /\ ~interactive
    /\ runErr' = TRUE
    /\ pcSvc' = "sendResult"
    /\ UNCHANGED <<lastCmd, harness, interactive, service, pcApp, tosvcVal, pcLis, failed,
                   reported, ret, exited, nReq, readyDone, initVal, leftBy, called>>
    /\ UNCHANGED <<fileVars, fireVars>>

\* Execute that announces Running on entry
ExecStartRunning ==
    /\ Alive /\ pcSvc = "run"
    /\ Report(Running)
    /\ pcSvc' = "sendReady"
    /\ UNCHANGED <<lastCmd, harness, interactive, service, pcApp, tosvcVal, pcLis, failed,
                   ret, runErr, exited, nReq, readyDone, initVal, leftBy, called>>
    /\ UNCHANGED <<fileVars, fireVars>>

\* Execute, line 329
ExecStart ==
    /\ Alive /\ pcSvc = "run"
    /\ Report(StartPending)
    /\ pcSvc' = "sendReady"
    /\ UNCHANGED <<lastCmd, harness, interactive, service, pcApp, tosvcVal, pcLis, failed,
                   ret, runErr, exited, nReq, readyDone, initVal, leftBy, called>>
    /\ UNCHANGED <<fileVars, fireVars>>

\* Execute line 331 meets initService line 305: h.fromsvc <- nil
HandshakeReady ==
    /\ Alive /\ pcSvc = "sendReady" /\ pcApp = "waitReady"
    /\ readyDone' = TRUE
    /\ pcSvc' = "waitInit"
    /\ pcApp' = IF harness THEN "idle" ELSE "notifySystem"
    /\ UNCHANGED <<lastCmd, harness, interactive, service, tosvcVal, pcLis, failed,
                   reported, ret, runErr, exited, nReq, initVal, leftBy, called>>
    /\ UNCHANGED <<fileVars, fireVars>>

\* the goroutine's line 301 meets initService line 305 with svc.Run's error:
\* initService, and Init, return it
AppInitFailed ==
    /\ Alive /\ pcSvc = "sendResult" /\ pcApp = "waitReady"
    /\ pcSvc' = "finished"
    /\ pcApp' = "initFailed"
    /\ UNCHANGED <<lastCmd, harness, interactive, service, tosvcVal, pcLis, failed,
                   reported, ret, runErr, exited, nReq, readyDone, initVal, leftBy, called>>
    /\ UNCHANGED <<fileVars, fireVars>>

\* handler.started that sends false whatever initPanicFile returned
StartedIgnoringError(onErrPc, onErrExit) ==
    \E failAt \in FailPoints :
        LET r == InitPanicFile(FileState, failAt)
        IN  /\ SetFileState(r.st)
            /\ priorCrash' = fs["panic"]
            /\ beginDone' = ~r.err
            /\ pcApp' = "sendStarted"
            /\ exited' = exited
            /\ tosvcVal' = FALSE
            /\ called' = called \cup {"started"}

\* handler.started up to its send: initPanicFile, then the value false is offered
Started(onErrPc, onErrExit) ==
    \E failAt \in FailPoints :
        LET r == InitPanicFile(FileState, failAt)
        IN  /\ SetFileState(r.st)
            /\ priorCrash' = fs["panic"]
            /\ beginDone' = ~r.err
            /\ pcApp' = IF r.err THEN onErrPc ELSE "sendStarted"
            /\ exited' = IF r.err THEN onErrExit ELSE exited
            /\ tosvcVal' = IF r.err THEN tosvcVal ELSE FALSE
            /\ called' = called \cup {"started"}

\* notifySystem: started() when service is set; logrus.Fatal ends the process
AppNotifySystem ==
    /\ Alive /\ pcApp = "notifySystem"
    /\ IF service
       THEN Started("fatal", "fatal")
       ELSE /\ pcApp' = "spawnListener"
            /\ UNCHANGED <<fs, panicFile, oldStderr, stderr, priorCrash,
                           beginDone, exited, tosvcVal, called>>
    /\ UNCHANGED <<lastCmd, harness, interactive, service, pcSvc, pcLis, failed, reported,
                   ret, runErr, nReq, readyDone, initVal, leftBy>>
    /\ UNCHANGED <<nWrites, endSize, fireVars>>

\* Init returning nil without starting the listener
AppSpawnListenerMissing ==
    /\ Alive /\ pcApp = "spawnListener"
    /\ pcApp' = "app"
    /\ UNCHANGED <<lastCmd, harness, interactive, service, tosvcVal, pcSvc, pcLis,
                   failed, reported, ret, runErr, exited, nReq, readyDone, initVal,
                   leftBy, called>>
    /\ UNCHANGED <<fileVars, fireVars>>

\* Init, lines 450-458: the listener is started and Init returns nil
AppSpawnListener ==
    /\ Alive /\ pcApp = "spawnListener"
    /\ pcLis' = "listen"
    /\ pcApp' = "app"
    /\ UNCHANGED <<lastCmd, harness, interactive, service, tosvcVal, pcSvc, failed,
                   reported, ret, runErr, exited, nReq, readyDone, initVal, leftBy, called>>
    /\ UNCHANGED <<fileVars, fireVars>>

\* handler.stopped up to its send: the value err != nil is offered
Stopped(err) ==
    /\ tosvcVal' = err
    /\ pcApp' = "sendStopped"
    /\ exited' = exited
    /\ called' = called \cup {"stopped"}

\* NotifyShutdown(err) whose log call returns: the error reaches stopped
NotifyShutdownLogOnly(err) ==
    IF service
    THEN Stopped(err)
    ELSE /\ pcApp' = "done"
         /\ UNCHANGED <<exited, tosvcVal, called>>

\* NotifyShutdown(err): logrus.Fatal ends the process when err is not nil
NotifyShutdown(err) ==
    IF service
    THEN IF err
         THEN /\ exited' = "fatal"
              /\ pcApp' = "fatal"
              /\ UNCHANGED <<tosvcVal, called>>
         ELSE Stopped(err)
    ELSE /\ pcApp' = "done"
         /\ UNCHANGED <<exited, tosvcVal, called>>

\* the application calls NotifyShutdown once Init has returned
AppNotifyShutdown ==
    /\ Alive /\ pcApp = "app"
    /\ \E err \in BOOLEAN : NotifyShutdown(err)
    /\ UNCHANGED <<lastCmd, harness, interactive, service, pcSvc, pcLis, failed, reported,
                   ret, runErr, nReq, readyDone, initVal, leftBy>>
    /\ UNCHANGED <<fileVars, fireVars>>

\* a caller of the package calls h.started() itself; the error is returned to it
HCallStarted ==
    /\ Alive /\ harness /\ pcApp = "idle" /\ "started" \notin called
    /\ Started("idle", "no")
    /\ UNCHANGED <<lastCmd, harness, interactive, service, pcSvc, pcLis, failed, reported,
                   ret, runErr, nReq, readyDone, initVal, leftBy>>
    /\ UNCHANGED <<nWrites, endSize, fireVars>>

\* a caller of the package calls h.stopped(err) itself
HCallStopped ==
    /\ Alive /\ harness /\ pcApp = "idle"
    /\ \E err \in BOOLEAN : Stopped(err)
    /\ UNCHANGED <<lastCmd, harness, interactive, service, pcSvc, pcLis, failed, reported,
                   ret, runErr, nReq, readyDone, initVal, leftBy>>
    /\ UNCHANGED <<fileVars, fireVars>>

\* Execute that ignores the value it receives at line 334
ExecRecvInitIgnored ==
    /\ Alive /\ pcSvc = "waitInit" /\ pcApp \in {"sendStarted", "sendStopped"}
    /\ failed' = tosvcVal
    /\ initVal' = IF tosvcVal THEN "true" ELSE "false"
    /\ pcApp' = AfterSend
    /\ pcSvc' = "reportRunning"
    /\ UNCHANGED <<lastCmd, harness, interactive, service, tosvcVal, pcLis, reported,
                   runErr, exited, nReq, readyDone, called, ret, leftBy>>
    /\ UNCHANGED <<fileVars, fireVars>>

\* Execute lines 334-338: the first value on tosvc; true aborts the start
ExecRecvInit ==
    /\ Alive /\ pcSvc = "waitInit" /\ pcApp \in {"sendStarted", "sendStopped"}
    /\ failed' = tosvcVal
    /\ initVal' = IF tosvcVal THEN "true" ELSE "false"
    /\ pcApp' = AfterSend
    /\ IF tosvcVal
       THEN /\ ret' = <<TRUE, 1>>
            /\ pcSvc' = "sendResult"
            /\ leftBy' = "initFailure"
       ELSE /\ pcSvc' = "reportRunning"
            /\ UNCHANGED <<ret, leftBy>>
    /\ UNCHANGED <<lastCmd, harness, interactive, service, tosvcVal, pcLis, reported,
                   runErr, exited, nReq, readyDone, called>>
    /\ UNCHANGED <<fileVars, fireVars>>

\* Execute lines 340-341
ExecReportRunning ==
    /\ Alive /\ pcSvc = "reportRunning"
    /\ Report(Running)
    /\ pcSvc' = "loop"
    /\ UNCHANGED <<lastCmd, harness, interactive, service, pcApp, tosvcVal, pcLis, failed,
                   ret, runErr, exited, nReq, readyDone, initVal, leftBy, called>>
    /\ UNCHANGED <<fileVars, fireVars>>

\* the tosvc case returning at once, without line 360
ExecRecvStopNoTeardown ==
    /\ Alive /\ pcSvc = "loop" /\ pcApp \in {"sendStarted", "sendStopped"}
    /\ failed' = tosvcVal
    /\ leftBy' = "app"
    /\ pcApp' = AfterSend
    /\ pcSvc' = "return"
    /\ UNCHANGED <<lastCmd, harness, interactive, service, tosvcVal, pcLis,
                   reported, ret, runErr, exited, nReq, readyDone, initVal, called>>
    /\ UNCHANGED <<fileVars, fireVars>>

\* Execute lines 345-346: the select takes a value from tosvc
ExecRecvStop ==
    /\ Alive /\ pcSvc = "loop" /\ pcApp \in {"sendStarted", "sendStopped"}
    /\ failed' = tosvcVal
    /\ leftBy' = "app"
    /\ pcApp' = AfterSend
    /\ pcSvc' = "teardown"
    /\ UNCHANGED <<lastCmd, harness, interactive, service, tosvcVal, pcLis, reported, ret,
                   runErr, exited, nReq, readyDone, initVal, called>>
    /\ UNCHANGED <<fileVars, fireVars>>

\* the control switch whose parameter-change case answers like Interrogate
ExecRequestParamReports(cmd) ==
    /\ nReq' = nReq + 1
    /\ lastCmd' = cmd
    /\ CASE cmd \in {"Interrogate", "ParamChange"} ->
              /\ Report(reported[Len(reported)])
              /\ UNCHANGED <<failed, pcSvc, leftBy>>
         [] cmd \in {"Stop", "Shutdown"} ->
              /\ Report(StopPending)
              /\ failed' = TRUE
              /\ leftBy' = cmd
              /\ pcSvc' = "sendSignal"
         [] OTHER ->
              UNCHANGED <<reported, failed, pcSvc, leftBy>>

\* the control switch without the StopPending report of line 353
ExecRequestSilentStop(cmd) ==
    /\ nReq' = nReq + 1
    /\ lastCmd' = cmd
    /\ CASE cmd = "Interrogate" ->
              /\ Report(reported[Len(reported)])
              /\ UNCHANGED <<failed, pcSvc, leftBy>>
         [] cmd \in {"Stop", "Shutdown"} ->
              /\ failed' = TRUE
              /\ leftBy' = cmd
              /\ pcSvc' = "sendSignal"
              /\ UNCHANGED reported
         [] OTHER ->
              UNCHANGED <<reported, failed, pcSvc, leftBy>>

\* Execute lines 347-357: the select takes a control request
ExecRequest(cmd) ==
    /\ nReq' = nReq + 1
    /\ lastCmd' = cmd
    /\ CASE cmd = "Interrogate" ->
              \* c.CurrentStatus is the status the service last reported
              /\ Report(reported[Len(reported)])
              /\ UNCHANGED <<failed, pcSvc, leftBy>>
         [] cmd \in {"Stop", "Shutdown"} ->
              /\ Report(StopPending)
              /\ failed' = TRUE
              /\ leftBy' = cmd
              /\ pcSvc' = "sendSignal"
         [] OTHER ->
              UNCHANGED <<reported, failed, pcSvc, leftBy>>

ExecCtl ==
    /\ Alive /\ pcSvc = "loop" /\ nReq < MaxRequests
    /\ \E cmd \in Cmds : ExecRequest(cmd)
    /\ UNCHANGED <<harness, interactive, service, pcApp, tosvcVal, pcLis, ret,
                   runErr, exited, readyDone, initVal, called>>
    /\ UNCHANGED <<fileVars, fireVars>>

\* Execute line 355 meets the listener's line 451: serviceSignal <- true
ExecSignal ==
    /\ Alive /\ pcSvc = "sendSignal" /\ pcLis = "listen"
    /\ pcSvc' = "teardown"
    /\ pcLis' = "gotSignal"
    /\ UNCHANGED <<lastCmd, harness, interactive, service, pcApp, tosvcVal, failed,
                   reported, ret, runErr, exited, nReq, readyDone, initVal, leftBy, called>>
    /\ UNCHANGED <<fileVars, fireVars>>

\* Execute line 360
ExecTeardown ==
    /\ Alive /\ pcSvc = "teardown"
    /\ SetFileState(RemovePanicFile(FileState))
    /\ endSize' = IF StatOk(FileState) THEN Len(fs["panic"].data) ELSE -2
    /\ pcSvc' = "return"
    /\ UNCHANGED <<svcVars_but_pcSvc, nWrites, priorCrash, beginDone, fireVars>>

\* lines 361-364 without the failed branch
ExecResultClean(f) == <<FALSE, 0>>

\* Execute lines 361-364
ExecResult(f) == IF f THEN <<TRUE, 1>> ELSE <<FALSE, 0>>

ExecReturn ==
    /\ Alive /\ pcSvc = "return"
    /\ ret' = ExecResult(failed)
    /\ pcSvc' = "sendResult"
    /\ UNCHANGED <<lastCmd, harness, interactive, service, pcApp, tosvcVal, pcLis, failed,
                   reported, runErr, exited, nReq, readyDone, initVal, leftBy, called>>
    /\ UNCHANGED <<fileVars, fireVars>>

\* the goroutine's line 301 meets handler.stopped's line 325
SvcResult ==
    /\ Alive /\ pcSvc = "sendResult" /\ pcApp = "waitAck"
    /\ pcSvc' = "finished"
    /\ pcApp' = "done"
    /\ UNCHANGED <<lastCmd, harness, interactive, service, tosvcVal, pcLis, failed,
                   reported, ret, runErr, exited, nReq, readyDone, initVal, leftBy, called>>
    /\ UNCHANGED <<fileVars, fireVars>>

\* the listener, lines 452-455: os.Exit(0)
ListenerExit ==
    /\ Alive /\ pcLis = "gotSignal"
    /\ exited' = "exit0"
    /\ pcLis' = "exited"
    /\ UNCHANGED <<lastCmd, harness, interactive, service, pcApp, tosvcVal, pcSvc, failed,
                   reported, ret, runErr, nReq, readyDone, initVal, leftBy, called>>
    /\ UNCHANGED <<fileVars, fireVars>>

\* something writes to the process's error output while it designates the panic
\* file (the runtime's report of a fault); a fatal fault then ends the process
FaultWrite ==
    /\ Alive /\ nWrites < MaxWrites
    /\ stderr = "panicFile" /\ panicFile = "open" /\ fs["panic"].exists
    /\ nWrites' = nWrites + 1
    /\ fs' = [fs EXCEPT !["panic"].data = Append(@, nWrites + 1)]
    /\ \E crash \in BOOLEAN : exited' = IF crash THEN "crash" ELSE exited
    /\ UNCHANGED <<lastCmd, harness, interactive, service, pcApp, tosvcVal, pcSvc, pcLis,
                   failed, reported, ret, runErr, nReq, readyDone, initVal, leftBy,
                   called>>
    /\ UNCHANGED <<panicFile, oldStderr, stderr, priorCrash, beginDone, endSize,
                   fireVars>>

----------------------------------------------------------------------------
(* etwHook.Fire.  A string is the sequence of its characters. *)

eventInfo == 1
eventWarn == 1
eventError == 1
eventDebug == 2
eventPanic == 3
eventFatal == 4
eventExtraOffset == 10

\* logrus.Level: the six levels the hook names, and a value that is none of them
Levels == {"panic", "fatal", "error", "warning", "info", "debug", "other"}

StrVal(chars) == [kind |-> "string", s |-> chars, n |-> 0]
IntVal(i) == [kind |-> "int", s |-> <<>>, n |-> i]

RECURSIVE Decimal(_)
Decimal(i) ==
    LET d == <<"0", "1", "2", "3", "4", "5", "6", "7", "8", "9">>[(i % 10) + 1]
    IN  IF i < 10 THEN <<d>> ELSE Decimal(i \div 10) \o <<d>>

\* fmt.Fprint of one value
Sprint(v) == IF v.kind = "string" THEN v.s ELSE Decimal(v.n)

\* syscall.UTF16PtrFromString fails on a string holding a NUL
HasNul(str) == \E i \in 1..Len(str) : str[i] = "NUL"

KeyPool == << <<"k">>, <<>>, <<"k", "2">>, <<"a", " ">> >>
Keys == {KeyPool[i] : i \in 1..MaxFields}
Values ==
    {StrVal(<<>>), StrVal(<<"v">>), StrVal(<<"x", " ", "y">>), StrVal(<<"NUL">>),
     IntVal(12)}
Messages == {<<>>, <<"m">>, <<"m", "NUL">>}
DataMaps == UNION {[S -> Values] : S \in SUBSET Keys}
Entries == [Level : Levels, Message : Messages, Data : DataMaps]

NoEntry == [Level |-> "info", Message |-> <<>>, Data |-> <<>>]
NotFired == [done |-> FALSE, err |-> "nil", events |-> <<>>, console |-> <<>>]

\* the orders in which range can visit a map's keys
Orders(S) ==
    {q \in [1..Cardinality(S) -> S] :
        \A i, j \in 1..Cardinality(S) : i # j => q[i] # q[j]}

\* the switch swapped on two neighbouring cases
BaseEventSwapped(level) ==
    CASE level = "panic" -> [ok |-> TRUE, etype |-> "Error", eid |-> eventPanic]
      [] level = "fatal" -> [ok |-> TRUE, etype |-> "Error", eid |-> eventFatal]
      [] level = "error" -> [ok |-> TRUE, etype |-> "Error", eid |-> eventError]
      [] level = "warning" -> [ok |-> TRUE, etype |-> "Information", eid |-> eventInfo]
      [] level = "info" -> [ok |-> TRUE, etype |-> "Warning", eid |-> eventWarn]
      [] level = "debug" -> [ok |-> TRUE, etype |-> "Information", eid |-> eventDebug]
      [] OTHER -> [ok |-> FALSE, etype |-> "", eid |-> 0]

\* lines 78-99: the switch on e.Level
BaseEvent(level) ==
    CASE level = "panic" -> [ok |-> TRUE, etype |-> "Error", eid |-> eventPanic]
      [] level = "fatal" -> [ok |-> TRUE, etype |-> "Error", eid |-> eventFatal]
      [] level = "error" -> [ok |-> TRUE, etype |-> "Error", eid |-> eventError]
      [] level = "warning" -> [ok |-> TRUE, etype |-> "Warning", eid |-> eventWarn]
      [] level = "info" -> [ok |-> TRUE, etype |-> "Information", eid |-> eventInfo]
      [] level = "debug" -> [ok |-> TRUE, etype |-> "Information", eid |-> eventDebug]
      [] OTHER -> [ok |-> FALSE, etype |-> "", eid |-> 0]

\* lines 104-110: the buffer after the keys were visited in this order
RECURSIVE FieldBuffer(_, _)
FieldBuffer(data, order) ==
    IF order = <<>> THEN <<>>
    ELSE LET k == order[Len(order)]
         IN  FieldBuffer(data, SubSeq(order, 1, Len(order) - 1))
                \o k \o <<"=">> \o Sprint(data[k]) \o <<" ">>

\* the buffer taken whole
ExtsUntrimmed(data, order) == FieldBuffer(data, order)

\* line 112: the buffer without its last byte
Exts(data, order) ==
    LET buf == FieldBuffer(data, order)
    IN  SubSeq(buf, 1, Len(buf) - 1)

\* Fire(e): what it returns, the ReportEvent call it makes and the line it prints
Fire(e, order, logNil, reportErr) ==
    LET b == BaseEvent(e.Level)
        hasData == Cardinality(DOMAIN e.Data) > 0
        exts == IF hasData THEN Exts(e.Data, order) ELSE <<>>
        eid == IF hasData THEN b.eid + eventExtraOffset ELSE b.eid
        none == [done |-> TRUE, err |-> "nil", events |-> <<>>, console |-> <<>>]
    IN  IF ~b.ok THEN [none EXCEPT !.err = "unknown level"]
        ELSE IF logNil
        THEN [none EXCEPT !.console = <<e.Message \o <<" ", "[">> \o exts \o <<"]", "\n">> >>]
        ELSE IF HasNul(e.Message) THEN [none EXCEPT !.err = "EINVAL"]
        ELSE IF exts # <<>> /\ HasNul(exts) THEN [none EXCEPT !.err = "EINVAL"]
        ELSE [none EXCEPT
                !.err = IF reportErr THEN "ReportEvent" ELSE "nil",
                !.events = << [etype |-> b.etype, eid |-> eid,
                               count |-> IF exts # <<>> THEN 2 ELSE 1,
                               strings |-> IF exts # <<>> THEN <<e.Message, exts>>
                                           ELSE <<e.Message>>] >>]

\* logrus hands the entry to the hook; h.log is nil in an interactive session
\* (initService lines 272-280)
FireEntry ==
    /\ ~fireOut.done
    /\ \E order \in Orders(DOMAIN entry.Data), reportErr \in BOOLEAN :
          fireOut' = Fire(entry, order, interactive, reportErr)
    /\ UNCHANGED <<entry, svcVars, fileVars>>

----------------------------------------------------------------------------
(* The program *)

\* what can be on disk when the process starts: the panic file absent, empty or
\* holding a crash record (0) of an earlier run; its .old sibling absent or present
InitialDisk ==
    { [panic |-> p, old |-> o] :
        p \in {NoFile, File(<<>>), File(<<0>>)},
        o \in {NoFile, File(<<0, 0>>)} }

InitCommon ==
    /\ interactive \in BOOLEAN
    /\ tosvcVal = FALSE
    /\ failed = FALSE
    /\ reported = <<>>
    /\ ret = NoRet
    /\ runErr = FALSE
    /\ exited = "no"
    /\ fs \in InitialDisk
    /\ panicFile = "nil"
    /\ oldStderr = "none"
    /\ stderr = "orig"
    /\ nReq = 0
    /\ nWrites = 0
    /\ readyDone = FALSE
    /\ initVal = "none"
    /\ leftBy = "none"
    /\ priorCrash = NoFile
    /\ beginDone = FALSE
    /\ endSize = -1
    /\ called = {}
    /\ lastCmd = "none"

\* the process enters Init(false, false)
Init ==
    /\ InitCommon
    /\ entry = NoEntry
    /\ fireOut = NotFired
    /\ harness = FALSE
    /\ service = FALSE
    /\ pcApp = "initService"
    /\ pcSvc = "idle"
    /\ pcLis = "idle"

Next ==
    \/ AppSpawnService
    \/ SvcRunFails
    \/ ExecStart
    \/ HandshakeReady
    \/ AppInitFailed
    \/ AppNotifySystem
    \/ AppSpawnListener
    \/ AppNotifyShutdown
    \/ ExecRecvInit
    \/ ExecReportRunning
    \/ ExecRecvStop
    \/ ExecCtl
    \/ ExecSignal
    \/ ExecTeardown
    \/ ExecReturn
    \/ SvcResult
    \/ ListenerExit
    \/ FaultWrite

Spec == Init /\ [][Next]_vars

\* The Go scheduler runs every goroutine that can take a step, and a channel
\* operation whose partner is waiting completes; what the service manager, the
\* application's decision to stop, and faults do is up to them.
Fairness ==
    /\ WF_vars(AppSpawnService)
    /\ WF_vars(ExecStart)
    /\ WF_vars(HandshakeReady)
    /\ WF_vars(AppInitFailed)
    /\ WF_vars(AppNotifySystem)
    /\ WF_vars(AppSpawnListener)
    /\ WF_vars(ExecRecvInit)
    /\ WF_vars(ExecReportRunning)
    /\ WF_vars(ExecRecvStop)
    /\ WF_vars(ExecSignal)
    /\ WF_vars(ExecTeardown)
    /\ WF_vars(ExecReturn)
    /\ WF_vars(SvcResult)
    /\ WF_vars(ListenerExit)

FairSpec == Init /\ [][Next]_vars /\ Fairness

\* the handler and the listener are up and a caller drives the handler itself
InitHandler ==
    /\ InitCommon
    /\ entry = NoEntry
    /\ fireOut = NotFired
    /\ harness = TRUE
    /\ service = TRUE
    /\ pcApp = "waitReady"
    /\ pcSvc = "run"
    /\ pcLis = "listen"

NextHandler ==
    \/ ExecStart
    \/ HandshakeReady
    \/ HCallStarted
    \/ HCallStopped
    \/ ExecRecvInit
    \/ ExecReportRunning
    \/ ExecRecvStop
    \/ ExecCtl
    \/ ExecSignal
    \/ ExecTeardown
    \/ ExecReturn
    \/ SvcResult
    \/ ListenerExit
    \/ FaultWrite

SpecHandler == InitHandler /\ [][NextHandler]_vars

----------------------------------------------------------------------------
(* Properties of the service handler *)

Last(q) == q[Len(q)]
HasReported(state) == \E i \in 1..Len(reported) : reported[i].State = state
ByOS == leftBy \in {"Stop", "Shutdown"}
Returned == ret # NoRet

\* C1: no Running status is on the status channel before the nil that Execute
\* sends on fromsvc has been received by initService.
C1_ReadyBeforeRunning == HasReported("Running") => readyDone

C1_Witness == HasReported("Running") /\ readyDone /\ pcApp = "app"

\* C2: from the moment Execute, Running, takes a Stop or Shutdown request, the
\* last status it has reported is StopPending accepting nothing; so it is there
\* when Execute returns.
C2_StopPendingBeforeReturn ==
    ByOS => /\ Len(reported) >= 3
            /\ Last(reported) = Status("StopPending", {})
            /\ reported[Len(reported) - 1].State = "Running"

C2_Witness == ByOS /\ Returned /\ Last(reported).State = "StopPending"

\* the scenario of C3: success signalled at start, no fault written, the OS sends
\* Stop, Execute has returned
C3_Scenario ==
    /\ Returned
    /\ initVal = "false"
    /\ leftBy = "Stop"
    /\ endSize = 0
    /\ reported[1] = StartPending
    /\ reported[2] = Running

\* C3 as stated: in the scenario StopPending was reported, the empty crash file
\* is gone and Execute returned (false, 0).
C3_AsStated ==
    C3_Scenario => /\ Last(reported) = StopPending
                   /\ ~fs["panic"].exists
                   /\ ret = <<FALSE, 0>>

\* C3 amended: in the scenario StopPending was reported, the empty crash file is
\* gone and Execute returned (true, 1).
C3_StopScenario ==
    C3_Scenario => /\ Last(reported) = StopPending
                   /\ ~fs["panic"].exists
                   /\ ret = <<TRUE, 1>>

C3_Witness == C3_Scenario /\ reported = <<StartPending, Running, StopPending>>

\* C4: once Execute has received true at line 334 it has returned (true, 1), has
\* reported no Running status and has taken no control request or stop signal.
C4_InitFailure ==
    initVal = "true" =>
        /\ ~HasReported("Running")
        /\ reported = <<StartPending>>
        /\ ret = <<TRUE, 1>>
        /\ pcSvc \in {"sendResult", "finished"}
        /\ nReq = 0
        /\ leftBy = "initFailure"
        /\ endSize = -1

C4_Witness == initVal = "true" /\ pcSvc = "finished" /\ pcApp = "done"

\* C5: the exit code Execute returns is 1 exactly when it ended on an
\* initialization failure or an OS Stop/Shutdown, and 0 exactly when Running was
\* left through the application's stop signal.
C5_ExitCode ==
    Returned =>
        /\ ret[2] \in {0, 1}
        /\ ret[2] = 1 <=> (leftBy = "initFailure" \/ ByOS)
        /\ ret[2] = 0 <=> leftBy = "app"
        /\ ret[1] = (ret[2] = 1)

C5_Witness == Returned /\ leftBy = "app" /\ ret = <<FALSE, 0>> /\ pcApp = "done"

----------------------------------------------------------------------------
(* Properties of the panic file *)

\* C6: after initPanicFile has succeeded on a disk that held a non-empty panic
\* file, that file's contents are in the .old file.
C6_RotationKeepsRecord ==
    (beginDone /\ priorCrash.exists /\ Len(priorCrash.data) > 0)
        => fs["old"] = priorCrash

\* C7: initPanicFile followed by removePanicFile with no write in between leaves
\* no panic file and the error output on the handle it had before.
C7_BeginEnd ==
    (beginDone /\ endSize # -1 /\ nWrites = 0)
        => /\ ~fs["panic"].exists
           /\ stderr = "orig"
           /\ endSize = 0

C7_Witness ==
    /\ beginDone /\ endSize = 0 /\ nWrites = 0
    /\ priorCrash = File(<<0>>)
    /\ ~fs["panic"].exists /\ stderr = "orig"

\* C8: when a write has reached the redirected output before removePanicFile
\* runs, removePanicFile sees a non-zero size and changes neither the files, nor
\* the file handle, nor the redirection of the error output.
C8_EndKeepsCrashFile ==
    [][(pcSvc = "teardown" /\ pcSvc' = "return" /\ nWrites >= 1)
          => /\ endSize' > 0
             /\ fs' = fs
             /\ panicFile' = panicFile /\ panicFile = "open"
             /\ stderr' = stderr /\ stderr = "panicFile"
             /\ oldStderr' = oldStderr]_vars

C8_Witness ==
    /\ endSize = 2 /\ nWrites = 2
    /\ fs["panic"] = File(<<1, 2>>)
    /\ panicFile = "open" /\ stderr = "panicFile"
    /\ Returned

----------------------------------------------------------------------------
(* Properties of the service handler, continued *)

\* C11: every status on the status channel that is StartPending or StopPending
\* accepts no command, and every Running status accepts exactly Stop, Shutdown
\* and the parameter-change control.
C11_Accepts ==
    \A i \in 1..Len(reported) :
        /\ reported[i].State \in {"StartPending", "StopPending"}
              => reported[i].Accepts = {}
        /\ reported[i].State = "Running"
              => reported[i].Accepts = {"Stop", "Shutdown", "ParamChange"}
        /\ reported[i].State \in {"StartPending", "Running", "StopPending"}

C11_Witness ==
    /\ HasReported("StartPending") /\ HasReported("Running")
    /\ HasReported("StopPending") /\ lastCmd = "Shutdown"

\* the application task is past notifySystem, Init having returned nil
PastNotifySystem ==
    pcApp \in {"spawnListener", "app", "sendStopped", "waitAck", "done"}

\* C12 as stated: in an interactive session the service handle is absent and the
\* collaborator operations have sent nothing and set up no crash file.
C12_AsStated ==
    interactive => /\ ~service
                   /\ called = {}
                   /\ ~beginDone
                   /\ initVal = "none"

\* C12 amended: in an interactive session too the service handle is set once
\* initService has started the handler, notifySystem has run initPanicFile and
\* had its false taken from tosvc, and a NotifyShutdown that has returned had its
\* stop outcome taken from tosvc.
C12_InteractiveHandlePresent ==
    interactive =>
        /\ pcApp # "initService" => service
        /\ PastNotifySystem =>
              ("started" \in called /\ beginDone /\ initVal = "false")
        /\ pcApp \in {"waitAck", "done"} =>
              ("stopped" \in called /\ leftBy = "app")

C12_Witness ==
    /\ interactive /\ service /\ pcApp = "done"
    /\ beginDone /\ leftBy = "app"

\* C13: when Execute has returned after leaving Running (stop signal on tosvc,
\* or Stop/Shutdown request), removePanicFile has run.
C13_TeardownBeforeReturn ==
    (Returned /\ (leftBy = "app" \/ ByOS)) => /\ endSize # -1
                                              /\ pcSvc \in {"sendResult", "finished"}

C13_Witness == Returned /\ ByOS /\ endSize = 1 /\ exited = "no"

\* C14, its last part: after an OS Stop the listener's os.Exit(0) does not end
\* the process before removePanicFile has run and Execute has returned.
C14_ExitAfterTeardown ==
    exited = "exit0" => (endSize # -1 /\ Returned)

\* the crash-capture state of C15
CrashState == <<panicFile, oldStderr, stderr>>

\* C15 as stated: every step that changes panicFile, oldStderr or the error
\* output's redirection is a step of the application task and not of the
\* goroutine running Execute.
C15_AsStated ==
    [][CrashState' # CrashState => (pcApp' # pcApp /\ pcSvc' = pcSvc)]_vars

\* C15 amended: the crash-capture state is changed by the application task in
\* initPanicFile, while Execute waits at line 334, and by the goroutine running
\* Execute in removePanicFile, after that and on an empty file only; by no other
\* step, and never by both at once.
C15_OwnersInTurn ==
    [][CrashState' # CrashState =>
          \/ /\ pcApp = "notifySystem" /\ pcApp' # pcApp
             /\ pcSvc = "waitInit" /\ pcSvc' = pcSvc
             /\ endSize = -1
          \/ /\ pcSvc = "teardown" /\ pcSvc' = "return"
             /\ pcApp' = pcApp /\ pcApp # "notifySystem"
             /\ beginDone
             /\ Len(fs["panic"].data) = 0]_vars

C15_Witness ==
    /\ beginDone /\ endSize = 0
    /\ panicFile = "closed" /\ stderr = "orig" /\ oldStderr = "orig"
    /\ pcSvc = "return"

\* C16: when NotifyShutdown was called with an error while Running and the
\* process has ended in its logrus.Fatal, the stop outcome was taken from tosvc
\* and removePanicFile has run.
C16_ErrorStopUnwinds ==
    (pcApp = "fatal" /\ exited = "fatal" /\ beginDone)
        => (leftBy = "app" /\ endSize # -1)

\* what C17 says has happened when a call of handler.stopped has returned
C17_Acknowledged ==
    ("stopped" \in called /\ pcApp = "done")
        => /\ leftBy = "app"
           /\ endSize # -1
           /\ Returned
           /\ pcSvc = "finished"

\* C17 as stated: a call of handler.stopped returns only after the stop outcome
\* was taken from tosvc, Execute has torn down and returned and the goroutine has
\* sent its result on fromsvc; and the call does return.
C17_AsStated ==
    /\ []C17_Acknowledged
    /\ (pcApp = "sendStopped") ~> (pcApp = "done")

\* C17 amended: the same, but the call returns or the process ends first.
C17_StopRendezvous ==
    /\ []C17_Acknowledged
    /\ (pcApp = "sendStopped") ~> (pcApp = "done" \/ exited # "no")

C17_Witness ==
    /\ "stopped" \in called /\ pcApp = "done" /\ pcSvc = "finished"
    /\ ret = <<FALSE, 0>> /\ nReq = 2

\* C18: a Running status is reported only after initPanicFile has succeeded, and
\* until removePanicFile runs the error output then designates the open panic
\* file; when initPanicFile has failed no false was sent on tosvc, no Running
\* status is reported and the process has ended.
C18_RedirectBeforeRunning ==
    /\ HasReported("Running") => beginDone
    /\ (HasReported("Running") /\ endSize = -1)
          => (stderr = "panicFile" /\ panicFile = "open" /\ fs["panic"].exists)
    /\ ("started" \in called /\ ~beginDone)
          => (initVal = "none" /\ ~HasReported("Running") /\ exited = "fatal")

C18_Witness ==
    /\ HasReported("Running") /\ beginDone /\ endSize = -1
    /\ stderr = "panicFile" /\ oldStderr = "orig"

\* C19: a step in which Execute takes an Interrogate or a parameter-change
\* request leaves it in the loop, hands nothing to the listener, runs no
\* teardown and changes no result; Interrogate appends exactly one status, the
\* current one, and parameter-change appends none.
C19_QueriesKeepState ==
    [][(nReq' = nReq + 1 /\ lastCmd' \in {"Interrogate", "ParamChange"})
          => /\ pcSvc = "loop" /\ pcSvc' = "loop"
             /\ UNCHANGED <<failed, leftBy, pcLis, pcApp, ret, exited, tosvcVal>>
             /\ UNCHANGED fileVars
             /\ lastCmd' = "Interrogate"
                   => reported' = Append(reported, Last(reported))
             /\ lastCmd' = "ParamChange" => reported' = reported]_vars

C19_Witness ==
    /\ lastCmd = "ParamChange" /\ nReq = 2 /\ pcSvc = "loop"
    /\ reported = <<StartPending, Running, Running>>

\* tasks standing at an operation on fromsvc, tosvc or serviceSignal
SvcOnChannel == pcSvc \in {"sendReady", "waitInit", "sendSignal", "sendResult"}
AppOnChannel == pcApp \in {"waitReady", "sendStarted", "sendStopped", "waitAck"}

\* C20: there is no state in which the process lives, Execute has not returned,
\* a task stands at a channel operation and nothing can take a step any more.
C20_NoDeadlock ==
    ~(/\ exited = "no"
      /\ ~Returned
      /\ SvcOnChannel \/ AppOnChannel
      /\ ~ENABLED Next)

C20_Witness ==
    /\ pcSvc = "sendSignal" /\ pcLis = "idle" /\ pcApp = "spawnListener"
    /\ exited = "no" /\ ~Returned

----------------------------------------------------------------------------
(* The hook on its own *)

InitFire ==
    /\ InitCommon
    /\ fs = [panic |-> NoFile, old |-> NoFile]
    /\ harness = FALSE
    /\ service = FALSE
    /\ pcApp = "log"
    /\ pcSvc = "idle"
    /\ pcLis = "idle"
    /\ entry \in Entries
    /\ fireOut = NotFired

NextFire == FireEntry

SpecFire == InitFire /\ [][NextFire]_vars

----------------------------------------------------------------------------
(* Properties of the hook *)

KnownLevels == {"panic", "fatal", "error", "warning", "info", "debug"}
Emitted == Len(fireOut.events) = 1
Printed == Len(fireOut.console) = 1
HasFields == DOMAIN entry.Data # {}

\* the table of C9: category and base identifier of each severity
C9_Table ==
    [panic |-> <<"Error", 3>>, fatal |-> <<"Error", 4>>, error |-> <<"Error", 1>>,
     warning |-> <<"Warning", 1>>, info |-> <<"Information", 1>>,
     debug |-> <<"Information", 2>>]

\* C9: an event Fire emits carries the category and the identifier (plus the
\* offset when the entry has fields) that the table gives the entry's severity;
\* for any other severity Fire returns an error and neither emits nor prints.
C9_SeverityMapping ==
    fireOut.done =>
        /\ Len(fireOut.events) <= 1 /\ Len(fireOut.console) <= 1
        /\ ~(Emitted /\ Printed)
        /\ entry.Level \in KnownLevels =>
              /\ fireOut.err # "unknown level"
              /\ Emitted =>
                    /\ fireOut.events[1].etype = C9_Table[entry.Level][1]
                    /\ fireOut.events[1].eid \in
                          {C9_Table[entry.Level][2], C9_Table[entry.Level][2] + 10}
              /\ (fireOut.err = "nil") => (Emitted \/ Printed)
        /\ entry.Level \notin KnownLevels =>
              /\ fireOut.err = "unknown level"
              /\ ~Emitted /\ ~Printed

C9_Witness ==
    /\ fireOut.done /\ entry.Level = "other" /\ fireOut.err = "unknown level"
    /\ HasFields

\* k=v of each key in the order given, one space between two of them
RECURSIVE C10_Joined(_, _)
C10_Joined(data, order) ==
    IF order = <<>> THEN <<>>
    ELSE LET kv == order[1] \o <<"=">> \o Sprint(data[order[1]])
         IN  IF Len(order) = 1 THEN kv
             ELSE kv \o <<" ">> \o C10_Joined(data, SubSeq(order, 2, Len(order)))

\* C10: an event emitted for an entry with fields has the base identifier plus
\* 10 and two strings, the message and the fields as k=v joined by single spaces
\* (in some order of the keys) with nothing after the last; an event emitted for
\* an entry without fields has the base identifier and the message alone.
C10_Fields ==
    (fireOut.done /\ Emitted) =>
        LET ev == fireOut.events[1]
            base == C9_Table[entry.Level][2]
        IN  IF HasFields
            THEN /\ ev.eid = base + 10
                 /\ ev.count = 2
                 /\ Len(ev.strings) = 2
                 /\ ev.strings[1] = entry.Message
                 /\ \E order \in Orders(DOMAIN entry.Data) :
                        ev.strings[2] = C10_Joined(entry.Data, order)
            ELSE /\ ev.eid = base
                 /\ ev.count = 1
                 /\ ev.strings = <<entry.Message>>

C10_Witness ==
    /\ fireOut.done /\ Emitted
    /\ Cardinality(DOMAIN entry.Data) = 2
    /\ fireOut.events[1].eid = 11
    /\ fireOut.events[1].strings[2] = <<"=", "1", "2", " ", "k", "=", "v">>

====
